---- MODULE Spec2Model ----
(***************************************************************************)
(* Model of app.py, the play-money slot machine: the session store         *)
(* (balance, history, last_reels, last_bet, message, auto_running,         *)
(* action_in_progress), the Reset / Spin / Auto button handlers, do_spin   *)
(* and evaluate_spin.  One script run is a sequence of steps separated at  *)
(* the places where the script sleeps (the reel animation inside do_spin   *)
(* and the delay between two auto-spins).                                  *)
(***************************************************************************)
EXTENDS Integers, Sequences, FiniteSets, TLC

VARIABLES
    balance,            \* st.session_state.balance
    history,            \* st.session_state.history, index 1 = python index 0
    last_reels,         \* st.session_state.last_reels
    last_bet,           \* st.session_state.last_bet
    message,            \* st.session_state.message (kind of the message)
    auto_running,       \* st.session_state.auto_running
    action_in_progress, \* st.session_state.action_in_progress
    pc,                 \* position of the running script
    caller,             \* who called do_spin: "spin_btn" or "auto"
    bet,                \* value of the bet number_input in this run
    auto_count,         \* value of the auto_count number_input in this run
    i,                  \* loop variable of the auto-spin loop
    spins_done,         \* spins_done of the auto-spin loop
    win,                \* win returned by evaluate_spin
    now,                \* wall clock, in seconds
    hist0,              \* history length when the current run started
    bal0,               \* balance when the current do_spin was entered
    stop_requested,     \* a stop request was issued during this auto run
    calls_after_stop,   \* do_spin calls begun after the stop request
    rejected,           \* a do_spin call of this run was rejected
    depleted,           \* the run left the loop at the balance <= 0 test
    insufficient,       \* an iteration of this run began with balance < bet
    exhausted_at,       \* iterations done when the balance became 0, or -1
    reported            \* spins_done shown by the last completion summary

vars == << balance, history, last_reels, last_bet, message, auto_running,
           action_in_progress, pc, caller, bet, auto_count, i, spins_done,
           win, now, hist0, bal0, stop_requested, calls_after_stop,
           rejected, depleted, insufficient, exhausted_at, reported >>

-----------------------------------------------------------------------------
(* Bounds *)

MaxHist == 3
MaxAutoCount == 3
MaxClock == 1
MaxEvalBet == 4

-----------------------------------------------------------------------------
(* Config & constants *)

SYMBOLS == << "cherry", "bell", "lemon", "diamond", "seven", "clover", "watermelon" >>

PAYOUT_TABLE ==
    [ s \in { SYMBOLS[k] : k \in 1..Len(SYMBOLS) } |->
        CASE s = "cherry"     -> 5
          [] s = "bell"       -> 8
          [] s = "lemon"      -> 4
          [] s = "diamond"    -> 12
          [] s = "seven"      -> 50
          [] s = "clover"     -> 10
          [] s = "watermelon" -> 6 ]

START_BALANCE == 1000

NoReels == << "-", "-", "-" >>

SymbolSet == { SYMBOLS[k] : k \in 1..Len(SYMBOLS) }

AllReels == { << a, b, c >> : a \in SymbolSet, b \in SymbolSet, c \in SymbolSet }

\* spin_once: three random.choice(SYMBOLS); the session model lets it draw
\* one outcome of each kind (a triple, a pair, three distinct symbols)
spin_once ==
    { << "lemon", "lemon", "lemon" >>, << "cherry", "lemon", "cherry" >>,
      << "cherry", "bell", "lemon" >> }

\* values the bet number_input is let to take
BetValues == { 1, START_BALANCE }

\* number_input(min_value=1, max_value=max(1, balance))
BetInputs(bal) == { b \in BetValues : b >= 1 /\ b <= (IF bal > 1 THEN bal ELSE 1) }

\* number_input(min_value=1, max_value=1000)
CountInputs == 1..MaxAutoCount

-----------------------------------------------------------------------------
(* Game logic *)

\* int(bet * 1.5) for a non-negative integer bet
IntOneAndHalf(b) == (3 * b) \div 2

evaluate_spin_nopair13(reels, b) ==
    IF reels[1] = reels[2] /\ reels[2] = reels[3]
    THEN b * PAYOUT_TABLE[reels[1]]
    ELSE IF reels[1] = reels[2] \/ reels[2] = reels[3]
         THEN IntOneAndHalf(b)
         ELSE 0

evaluate_spin(reels, b) ==
    IF reels[1] = reels[2] /\ reels[2] = reels[3]
    THEN b * PAYOUT_TABLE[reels[1]]
    ELSE IF reels[1] = reels[2] \/ reels[1] = reels[3] \/ reels[2] = reels[3]
         THEN IntOneAndHalf(b)
         ELSE 0

evaluate_msg(reels) ==
    IF reels[1] = reels[2] /\ reels[2] = reels[3]
    THEN "three"
    ELSE IF reels[1] = reels[2] \/ reels[1] = reels[3] \/ reels[2] = reels[3]
         THEN "two"
         ELSE "none"

-----------------------------------------------------------------------------
(* do_spin, split at its animation loop *)

\* the guard of do_spin: "if bet_amount > st.session_state.balance"
BetRejected_never(bet_amount, bal) == FALSE

BetRejected(bet_amount, bal) == bet_amount > bal

\* st.session_state.balance -= bet_amount
Debited(bal, bet_amount) == bal - bet_amount

\* if win > 0: st.session_state.balance += win
Credited(bal, w) == IF w > 0 THEN bal + w ELSE bal

\* the dict inserted into the history
SpinRecord_stale(ts, final, bet_amount, w, bal) ==
    [ timestamp |-> ts, reels |-> final, bet |-> bet_amount, win |-> w,
      balance_after |-> bal - w, message |-> evaluate_msg(final) ]

SpinRecord(ts, final, bet_amount, w, bal) ==
    [ timestamp |-> ts, reels |-> final, bet |-> bet_amount, win |-> w,
      balance_after |-> bal, message |-> evaluate_msg(final) ]

\* st.session_state.history.insert(0, record)
Inserted_append(hist, rec) == Append(hist, rec)

Inserted(hist, rec) == << rec >> \o hist

\* the Spin handler's own tests: "if bet <= 0" / "elif bet > balance"
HandlerRefuses(b, bal) == b <= 0 \/ b > bal

\* "for i in range(int(auto_count))" has run out
LoopDone_short(k, n) == k >= n - 1

LoopDone(k, n) == k >= n

\* the loop's "if st.session_state.balance <= 0"
BalanceDepleted(bal) == bal <= 0

\* the loop's "if not st.session_state.auto_running"
StopObserved_never(running) == FALSE

StopObserved(running) == ~running

\* values written by the Reset Saldo handler
ResetHistory_keep(hist) == hist

ResetHistory(hist) == << >>

\* the flags written when the auto-spin block ends
EndFlag_stale(flag) == flag

EndFlag(flag) == FALSE

locals == << caller, bet, auto_count, i, spins_done, win >>
ghosts == << hist0, bal0, stop_requested, calls_after_stop, rejected, depleted,
            insufficient, exhausted_at, reported >>
session == << balance, history, last_reels, last_bet, message, auto_running,
              action_in_progress >>

\* the script run is over: its locals are gone
RunOver ==
    /\ pc' = "idle"
    /\ caller' = "none"
    /\ bet' = 0
    /\ auto_count' = 0
    /\ i' = 0
    /\ spins_done' = 0
    /\ win' = 0
    /\ hist0' = 0
    /\ bal0' = 0
    /\ stop_requested' = FALSE
    /\ calls_after_stop' = 0
    /\ rejected' = FALSE
    /\ depleted' = FALSE
    /\ insufficient' = FALSE
    /\ exhausted_at' = -1
    /\ reported' = 0

-----------------------------------------------------------------------------
Init ==
    /\ balance = START_BALANCE
    /\ history = << >>
    /\ last_reels = NoReels
    /\ last_bet = 0
    /\ message = "welcome"
    /\ auto_running = FALSE
    /\ action_in_progress = FALSE
    /\ pc = "idle"
    /\ caller = "none"
    /\ bet = 0
    /\ auto_count = 0
    /\ i = 0
    /\ spins_done = 0
    /\ win = 0
    /\ now = 0
    /\ hist0 = 0
    /\ bal0 = 0
    /\ stop_requested = FALSE
    /\ calls_after_stop = 0
    /\ rejected = FALSE
    /\ depleted = FALSE
    /\ insufficient = FALSE
    /\ exhausted_at = -1
    /\ reported = 0

\* A run with the Reset Saldo button pressed.
ClickReset ==
    /\ pc = "idle"
    /\ balance' = START_BALANCE
    /\ history' = ResetHistory(history)
    /\ message' = "reset"
    /\ last_reels' = NoReels
    /\ pc' = "reset_done"
    /\ UNCHANGED << last_bet, auto_running, action_in_progress, locals, now, ghosts >>

\* The rest of the run after a reset: no button of the lower handlers is set.
ResetRunEnd ==
    /\ pc = "reset_done"
    /\ RunOver
    /\ UNCHANGED << session, now >>

\* A run with the Spin button pressed: the handler up to the animation of
\* do_spin, or the whole handler when the bet is refused.
ClickSpin ==
    /\ pc = "idle"
    /\ ~action_in_progress
    /\ Len(history) < MaxHist
    /\ \E b \in BetInputs(balance) :
          /\ hist0' = Len(history)
          /\ bal0' = balance
          /\ stop_requested' = FALSE
          /\ calls_after_stop' = 0
          /\ depleted' = FALSE
          /\ insufficient' = (balance < b)
          /\ UNCHANGED << exhausted_at, reported >>
          /\ IF HandlerRefuses(b, balance) \/ BetRejected(b, balance)
             THEN /\ rejected' = TRUE
                  /\ action_in_progress' = FALSE
                  /\ pc' = "refused"
                  /\ bet' = b
                  /\ caller' = "spin_btn"
                  /\ UNCHANGED << balance, history, last_reels, last_bet, message,
                                  auto_running, auto_count, i, spins_done, win, now >>
             ELSE /\ rejected' = FALSE
                  /\ action_in_progress' = TRUE
                  /\ last_bet' = b
                  /\ balance' = Debited(balance, b)
                  /\ bet' = b
                  /\ caller' = "spin_btn"
                  /\ pc' = "anim"
                  /\ UNCHANGED << history, last_reels, message, auto_running,
                                  auto_count, i, spins_done, win, now >>

\* The rest of a run whose manual spin was refused.
RefusedRunEnd ==
    /\ pc = "refused"
    /\ RunOver
    /\ UNCHANGED << session, now >>

\* do_spin after its animation: the draw, the credit and the history record;
\* then the return to the caller.
FinishSpin ==
    /\ pc = "anim"
    /\ \E final \in spin_once :
         LET w == evaluate_spin(final, bet)
             bal == Credited(balance, w)
         IN /\ last_reels' = final
            /\ win' = w
            /\ balance' = bal
            /\ message' = evaluate_msg(final)
            /\ history' = Inserted(history, SpinRecord(now, final, bet, w, bal))
            /\ exhausted_at' = IF bal = 0 /\ exhausted_at = -1 /\ caller = "auto"
                               THEN i + 1 ELSE exhausted_at
    /\ IF caller = "spin_btn"
       THEN /\ action_in_progress' = FALSE
            /\ pc' = "spun"
            /\ UNCHANGED spins_done
       ELSE /\ spins_done' = spins_done + 1
            /\ pc' = "check"
            /\ UNCHANGED action_in_progress
    /\ UNCHANGED << last_bet, auto_running, caller, bet, auto_count, i, now,
                    hist0, bal0, stop_requested, calls_after_stop, rejected,
                    depleted, insufficient, reported >>

\* The rest of a run after its manual spin.
SpinRunEnd ==
    /\ pc = "spun"
    /\ RunOver
    /\ UNCHANGED << session, now >>

\* A run with the Start Auto button pressed: the toggle and the loop's set-up.
ClickAuto ==
    /\ pc = "idle"
    /\ \E b \in BetInputs(balance), n \in CountInputs :
          /\ Len(history) + n <= MaxHist
          /\ bet' = b
          /\ auto_count' = n
    /\ auto_running' = ~auto_running
    /\ auto_running' = TRUE
    /\ action_in_progress' = TRUE
    /\ spins_done' = 0
    /\ i' = 0
    /\ caller' = "auto"
    /\ pc' = "loop"
    /\ hist0' = Len(history)
    /\ stop_requested' = FALSE
    /\ calls_after_stop' = 0
    /\ rejected' = FALSE
    /\ depleted' = FALSE
    /\ insufficient' = FALSE
    /\ exhausted_at' = IF balance = 0 THEN 0 ELSE -1
    /\ UNCHANGED << balance, history, last_reels, last_bet, message, win, now,
                    bal0, reported >>

\* The head of one iteration: the range test, the balance test and the call
\* of do_spin up to its animation (or its refusal).
LoopIteration ==
    /\ pc = "loop"
    /\ insufficient' = (insufficient \/ (i < auto_count /\ balance < bet))
    /\ UNCHANGED << hist0, stop_requested, exhausted_at, reported >>
    /\ IF LoopDone(i, auto_count)
       THEN /\ pc' = "end"
            /\ UNCHANGED << balance, last_bet, spins_done, bal0, calls_after_stop,
                            rejected, depleted >>
       ELSE IF BalanceDepleted(balance)
       THEN /\ pc' = "end"
            /\ depleted' = TRUE
            /\ UNCHANGED << balance, last_bet, spins_done, bal0, calls_after_stop,
                            rejected >>
       ELSE /\ calls_after_stop' = IF stop_requested THEN calls_after_stop + 1
                                   ELSE calls_after_stop
            /\ bal0' = balance
            /\ UNCHANGED depleted
            /\ IF BetRejected(bet, balance)
               THEN /\ rejected' = TRUE
                    /\ spins_done' = spins_done + 1
                    /\ pc' = "check"
                    /\ UNCHANGED << balance, last_bet >>
               ELSE /\ last_bet' = bet
                    /\ balance' = Debited(balance, bet)
                    /\ pc' = "anim"
                    /\ UNCHANGED << rejected, spins_done >>
    /\ UNCHANGED << history, last_reels, message, auto_running, action_in_progress,
                    caller, bet, auto_count, i, win, now >>

\* After do_spin returned: the test of the stop flag.
CheckStop ==
    /\ pc = "check"
    /\ pc' = IF StopObserved(auto_running) THEN "end" ELSE "sleep"
    /\ UNCHANGED << session, locals, now, ghosts >>

\* time.sleep(auto_delay) and the next value of i.
Sleep ==
    /\ pc = "sleep"
    /\ i' = i + 1
    /\ pc' = "loop"
    /\ UNCHANGED << session, caller, bet, auto_count, spins_done, win, now, ghosts >>

\* The end of the auto-spin block.
AutoEnd ==
    /\ pc = "end"
    /\ auto_running' = EndFlag(auto_running)
    /\ action_in_progress' = EndFlag(action_in_progress)
    /\ reported' = spins_done
    /\ pc' = "auto_done"
    /\ UNCHANGED << balance, history, last_reels, last_bet, message, locals, now,
                    hist0, bal0, stop_requested, calls_after_stop, rejected, depleted,
                    insufficient, exhausted_at >>

\* The rest of a run after its auto-spin block.
AutoRunEnd ==
    /\ pc = "auto_done"
    /\ RunOver
    /\ UNCHANGED << session, now >>

\* A stop request reaches the session store while the loop runs.
StopRequest ==
    /\ pc \in { "loop", "anim", "check", "sleep" }
    /\ caller = "auto"
    /\ auto_running
    /\ auto_running' = FALSE
    /\ stop_requested' = TRUE
    /\ UNCHANGED << balance, history, last_reels, last_bet, message,
                    action_in_progress, pc, locals, now, hist0, bal0,
                    calls_after_stop, rejected, depleted, insufficient,
                    exhausted_at, reported >>

\* The wall clock advances by a second; the script reads it in do_spin only,
\* so the seconds that pass are taken where the script waits: between two
\* runs, in the animation of do_spin and in the delay of the loop.
Tick ==
    /\ now < MaxClock
    /\ pc \in { "idle", "anim", "sleep" }
    /\ now' = now + 1
    /\ UNCHANGED << session, pc, locals, ghosts >>

Next ==
    \/ ClickReset
    \/ ResetRunEnd
    \/ ClickSpin
    \/ RefusedRunEnd
    \/ FinishSpin
    \/ SpinRunEnd
    \/ ClickAuto
    \/ LoopIteration
    \/ CheckStop
    \/ Sleep
    \/ AutoEnd
    \/ AutoRunEnd
    \/ StopRequest
    \/ Tick

Spec == Init /\ [][Next]_vars

\* the script's own steps; a started run is executed to its end
ScriptStep ==
    \/ ResetRunEnd
    \/ RefusedRunEnd
    \/ FinishSpin
    \/ SpinRunEnd
    \/ LoopIteration
    \/ CheckStop
    \/ Sleep
    \/ AutoEnd
    \/ AutoRunEnd

FairSpec == Spec /\ WF_vars(ScriptStep)

-----------------------------------------------------------------------------
(* evaluate_spin on its own: every reel outcome of the 7 symbols, bets 1..MaxEvalBet *)

InitEval ==
    /\ balance = START_BALANCE
    /\ history = << >>
    /\ last_reels \in AllReels
    /\ last_bet = 0
    /\ message = "welcome"
    /\ auto_running = FALSE
    /\ action_in_progress = FALSE
    /\ pc = "eval"
    /\ caller = "none"
    /\ bet \in 1..MaxEvalBet
    /\ auto_count = 0
    /\ i = 0
    /\ spins_done = 0
    /\ win = 0
    /\ now = 0
    /\ hist0 = 0
    /\ bal0 = 0
    /\ stop_requested = FALSE
    /\ calls_after_stop = 0
    /\ rejected = FALSE
    /\ depleted = FALSE
    /\ insufficient = FALSE
    /\ exhausted_at = -1
    /\ reported = 0

Evaluate ==
    /\ pc = "eval"
    /\ win' = evaluate_spin(last_reels, bet)
    /\ message' = evaluate_msg(last_reels)
    /\ pc' = "evaluated"
    /\ UNCHANGED << balance, history, last_reels, last_bet, auto_running,
                    action_in_progress, caller, bet, auto_count, i, spins_done,
                    now, ghosts >>

NextEval == Evaluate

SpecEval == InitEval /\ [][NextEval]_vars

-----------------------------------------------------------------------------
(* Properties *)

\* history records added since the current run started
Added == Len(history) - hist0

\* the step is the Reset Saldo handler
IsReset == pc = "idle" /\ pc' = "reset_done"

\* the step is a spin request: the Spin handler, or a do_spin call of the loop
IsSpinRequest ==
    \/ pc = "idle" /\ pc' \in { "refused", "anim" }
    \/ pc = "loop" /\ pc' \in { "check", "anim" }

\* the step is the end of do_spin's animation: the draw, credit and record
IsSpinCompletion == pc = "anim" /\ pc' # "anim"

\* C1: the balance is never negative, in any state of any session.
C1_BalanceNeverNegative == balance >= 0

C1_Witness ==
    /\ pc = "refused"
    /\ bet > balance
    /\ balance = 0
    /\ Len(history) > 0

\* C2: a spin request with bet <= 0 or bet > balance changes nothing of the
\* session: balance, history (no new record), last reels, last bet, message
\* and flags are the same after the request as before it, each time.
C2_RejectedSpinChangesNothing ==
    [][ (IsSpinRequest /\ (bet' <= 0 \/ bet' > balance))
            => (pc' # "anim" /\ UNCHANGED session) ]_vars

C2_Witness ==
    /\ pc = "check"
    /\ rejected
    /\ bet > balance
    /\ balance > 0
    /\ Added = 1

\* the multipliers of the seven symbols, in the order of SYMBOLS
C3_Multipliers == << 5, 8, 4, 12, 50, 10, 6 >>

C3_Index(sym) == CHOOSE k \in 1..Len(SYMBOLS) : SYMBOLS[k] = sym

\* C3: the win is bet x multiplier for three equal symbols, floor(1.5 x bet)
\* for exactly two equal symbols (any pairing), 0 for three distinct symbols,
\* and always a non-negative integer.
C3_PayoutRules ==
    pc = "evaluated" =>
        LET n == Cardinality({ last_reels[1], last_reels[2], last_reels[3] })
        IN /\ n = 1 => win = bet * C3_Multipliers[C3_Index(last_reels[1])]
           /\ n = 2 => (2 * win <= 3 * bet /\ 3 * bet < 2 * win + 2)
           /\ n = 3 => win = 0
           /\ win \in Nat

C3_Witness ==
    /\ pc = "evaluated"
    /\ last_reels = << "diamond", "lemon", "diamond" >>
    /\ bet = 3
    /\ win = 4

\* C4: right after a reset the balance is 1000, the history is empty and the
\* last reel outcome is the initial placeholder, whatever the state before.
C4_ResetRestoresInitial ==
    pc = "reset_done" =>
        /\ balance = 1000
        /\ history = << >>
        /\ last_reels = << "-", "-", "-" >>

C4_Witness ==
    /\ pc = "reset_done"
    /\ last_bet = 1000
    /\ message = "reset"
    /\ history = << >>

\* C5: every completed spin adds exactly one record, at the head of the
\* history, and leaves the older records as they were, one place further; no
\* other step but the reset changes the history; timestamps never increase
\* from the head of the history on.
C5_HistoryGrowsAtHead ==
    [][ /\ IsSpinCompletion =>
              /\ Len(history') = Len(history) + 1
              /\ \A k \in 1..Len(history) : history'[k + 1] = history[k]
              /\ history'[1].timestamp = now
        /\ (~IsSpinCompletion /\ ~IsReset) => history' = history
        /\ IsReset => history' = << >>
        /\ \A k \in 1..(Len(history') - 1) :
              history'[k].timestamp >= history'[k + 1].timestamp ]_vars

C5_Witness ==
    /\ Len(history) = 3
    /\ history[1].timestamp > history[3].timestamp
    /\ history[1].bet # history[2].bet

\* C6: when an auto-spin run has left its loop without a stop request, it has
\* added exactly auto_count records if the balance covered the bet at each of
\* its iterations; and a run whose balance became 0 at its k-th spin,
\* k < auto_count, has made exactly k iterations and added exactly k records.
C6_AutoSpinRecordCount ==
    pc = "end" =>
        /\ (~stop_requested /\ ~insufficient) => Added = auto_count
        /\ (exhausted_at >= 0 /\ exhausted_at < auto_count) =>
              (Added = exhausted_at /\ spins_done = exhausted_at)

C6_Witness ==
    /\ pc = "end"
    /\ ~stop_requested
    /\ auto_count = 3
    /\ exhausted_at = 1
    /\ depleted
    /\ Added = 1

\* C7: after a stop request at most one more do_spin call is begun; the stop
\* request itself leaves the script where it is; and a spin that was debited
\* is always completed with its history record, never dropped.
C7_CooperativeStop ==
    [][ /\ calls_after_stop' <= 1
        /\ (auto_running /\ ~auto_running' /\ pc # "end") =>
              (pc' = pc /\ balance' = balance /\ history' = history)
        /\ pc = "anim" =>
              (pc' = "anim" \/ (pc' \in { "check", "spun" }
                                /\ Len(history') = Len(history) + 1)) ]_vars

C7_Witness ==
    /\ pc = "end"
    /\ stop_requested
    /\ calls_after_stop = 1
    /\ spins_done = 2
    /\ auto_count = 3
    /\ Added = 2

\* C8: the bet is debited before the outcome is drawn; the completed spin
\* credits the win of its outcome, so that the balance is the balance before
\* the spin minus the bet plus the win, and the new head record holds this
\* bet, this win and this balance; outside a spin in progress the head
\* record's balance_after is the balance.
C8_SpinAccounting ==
    [][ /\ (pc # "anim" /\ pc' = "anim") =>
              /\ balance' = balance - bet'
              /\ history' = history
              /\ last_reels' = last_reels
        /\ IsSpinCompletion =>
              /\ history'[1].bet = bet
              /\ history'[1].reels = last_reels'
              /\ history'[1].win = evaluate_spin(last_reels', bet)
              /\ balance' = bal0 - bet + history'[1].win
              /\ history'[1].balance_after = balance'
        /\ (pc' # "anim" /\ history' # << >>) =>
              history'[1].balance_after = balance' ]_vars

C8_Witness ==
    /\ pc = "spun"
    /\ win = 1500
    /\ bal0 = 1000
    /\ balance = 1500
    /\ history[1].balance_after = 1500

\* C9: every started run comes back to the idle state, there auto_running and
\* action_in_progress are both False; the loop never makes more iterations
\* than requested, and a run started with balance 0 makes no spin.
C9_ReturnsToIdle ==
    /\ [](pc = "idle" => (~auto_running /\ ~action_in_progress))
    /\ [](i <= auto_count /\ spins_done <= auto_count)
    /\ []((pc = "auto_done" /\ exhausted_at = 0) => (Added = 0 /\ spins_done = 0))
    /\ [](pc # "idle" => <>(pc = "idle"))

C9_Witness ==
    /\ pc = "auto_done"
    /\ exhausted_at = 0
    /\ depleted
    /\ ~auto_running
    /\ ~action_in_progress

\* C10: the number of spins of the completion summary is the number of
\* history records the run added.
C10_ReportedEqualsAdded == pc = "auto_done" => reported = Added

====
